---- MODULE Spec2Model ----
(***************************************************************************)
(* A model of src/bot.py: the TradingView -> Bybit webhook bot (long-only, *)
(* 3x leverage).  One webhook invocation is a sequential pipeline of       *)
(* blocking exchange calls; the model gives every invocation a program     *)
(* counter that moves one exchange round trip at a time, so that two       *)
(* invocations interleave exactly at the exchange calls.                    *)
(*                                                                         *)
(* Numbers.  The code computes with Python floats parsed from the decimal  *)
(* strings of the exchange.  Here a decimal string is a pair               *)
(* <<digits, scale>> (the value digits/scale, e.g. "0.06" is <<6, 100>>),  *)
(* float() reduces it to a rational in lowest terms, and arithmetic is     *)
(* exact rational arithmetic: binary rounding error is not modelled.       *)
(***************************************************************************)
EXTENDS Integers, Sequences, FiniteSets, TLC

(***************************************************************************)
(* Rational arithmetic (the float operations of the code).                 *)
(***************************************************************************)
Abs(x) == IF x < 0 THEN 0 - x ELSE x

RECURSIVE GCD(_, _)
GCD(a, b) == IF b = 0 THEN a ELSE GCD(b, a % b)

\* n/d in lowest terms with a positive denominator (d # 0).
Rat(n, d) ==
    LET g == GCD(Abs(n), Abs(d))
        s == IF d < 0 THEN 0 - 1 ELSE 1
    IN  <<(s * n) \div g, (s * d) \div g>>

\* A field the response does not carry (dict lookup raises KeyError).
NoField == <<>>

\* float(s) of a decimal string s = <<digits, scale>>.
ParseFloat(s) == Rat(s[1], s[2])

RatAdd(a, b) == Rat(a[1] * b[2] + b[1] * a[2], a[2] * b[2])
RatSub(a, b) == Rat(a[1] * b[2] - b[1] * a[2], a[2] * b[2])
RatMul(a, b) == Rat(a[1] * b[1], a[2] * b[2])
\* a / b for b # 0 (the callers test b first: Python raises ZeroDivisionError).
RatDiv(a, b) == Rat(a[1] * b[2], a[2] * b[1])
RatLE(a, b)  == a[1] * b[2] <= b[1] * a[2]
RatLT(a, b)  == a[1] * b[2] < b[1] * a[2]
\* max(a, b) of Python: the first argument unless the second is greater.
RatMax(a, b) == IF RatLT(a, b) THEN b ELSE a
\* math.floor
Floor(a)     == a[1] \div a[2]
Zero         == <<0, 1>>
IntRat(k)    == <<k, 1>>

LONG_LEVERAGE == 3

(***************************************************************************)
(* Bounds and input domains.                                               *)
(***************************************************************************)
\* Longest fill list the exchange reports for one order.
MaxFills == 2

Procs == {1, 2}

Symbol == "BTCUSDT"
\* data.get('symbol'): the symbol, or "" for a missing or empty field.
SignalSymbols == {Symbol, ""}
\* data.get('side', ''): "" stands for a missing or empty field.
SignalSides == {"buy", "BUY", "exit", "EXIT", "sell", ""}

\* totalAvailableBalance strings.
Balances == {<<0, 1>>, <<1, 1>>, <<7, 1>>, <<1000, 1>>}

\* lastPrice and lotSizeFilter of the instrument.
Markets ==
    { [lastPrice |-> <<50000, 1>>, minOrderQty |-> <<1, 1000>>, qtyStep |-> <<1, 1000>>],
      [lastPrice |-> <<2, 1>>,     minOrderQty |-> <<1, 1>>,    qtyStep |-> <<1, 1>>],
      [lastPrice |-> <<2, 1>>,     minOrderQty |-> <<3, 1>>,    qtyStep |-> <<2, 1>>],
      [lastPrice |-> <<2, 1>>,     minOrderQty |-> <<4, 1>>,    qtyStep |-> <<2, 1>>] }

\* result.list of v5/position/list.
PositionLists ==
    { <<>>,
      << [side |-> "", size |-> <<0, 1>>, avgPrice |-> <<0, 1>>] >>,
      << [side |-> "Buy", size |-> <<0, 1>>, avgPrice |-> <<0, 1>>],
         [side |-> "Sell", size |-> <<0, 1>>, avgPrice |-> <<0, 1>>] >>,
      << [side |-> "Buy", size |-> <<6, 100>>, avgPrice |-> <<50000, 1>>] >>,
      << [side |-> "Sell", size |-> <<1, 1>>, avgPrice |-> <<2, 1>>],
         [side |-> "Buy", size |-> <<0, 1>>, avgPrice |-> <<0, 1>>],
         [side |-> "Buy", size |-> <<2, 1>>, avgPrice |-> <<2, 1>>] >> }

(***************************************************************************)
(* State.                                                                  *)
(***************************************************************************)
VARIABLES
    env,        \* what the callers, the network and the exchange may do (fixed)
    exBalance,  \* the exchange: available USDT balance of the account
    exMarket,   \* the exchange: last price and lot size filter of Symbol
    exPos,      \* the exchange: position list of Symbol
    exOrders,   \* the exchange: accepted orders with their fills; orderId = index
    pc,         \* pc[i]: the exchange call invocation i is about to make
    sig,        \* sig[i]: the JSON body of the webhook request
    loc,        \* loc[i]: the local variables of webhook()
    calls,      \* calls[i]: the exchange calls invocation i has made, in order
    notified,   \* notified[i]: the outcomes of its send_telegram calls
    resp        \* resp[i]: what webhook() returned

vars == <<env, exBalance, exMarket, exPos, exOrders, pc, sig, loc, calls, notified, resp>>

exVars == <<env, exBalance, exMarket, exPos, exOrders>>

\* A local that has not been assigned (the position list, which may be
\* empty, is kept as <<list>> once assigned).
None == <<>>

NoLocals ==
    [balance |-> None, min_q |-> None, step |-> None, price |-> None, qty |-> None,
     order_id |-> 0, execs |-> None, avg_price |-> None, pct |-> None,
     positions |-> None, original |-> None, entry_price |-> None, balance_before |-> None,
     exit_price |-> None, pnl |-> None, fee |-> None, net_pnl |-> None,
     pct_change |-> None]

NoResp == [status |-> "none", reason |-> ""]

\* os.getenv of a variable that is not set (lines 14-15).
Unset == "<None>"

\* BYBIT_API_KEY and BYBIT_API_SECRET: not set, set to the empty string, set.
ApiKeys    == {Unset, "", "key"}
ApiSecrets == {Unset, "", "secret"}

\* Every request the endpoint accepts and every answer the exchange, the
\* network and the notifier can give.
AnyEnv ==
    [apiKey  |-> "key",
     apiSecret |-> "secret",
     symbols |-> SignalSymbols,
     sides   |-> SignalSides,
     reads   |-> {"ok", "nofield", "retErr", "empty", "transport"},
     orders  |-> {"accepted", "rejected", "transport"},
     fills   |-> {"full", "half", "halfNoFee", "zero"},
     notify  |-> {"sent", "failed", "skipped"}]

\* Well-formed buy and exit signals; the exchange answers a call with its
\* data or with a non-success result code, accepts or rejects orders, and
\* the network may fail.
RaceEnv ==
    [apiKey  |-> "key",
     apiSecret |-> "secret",
     symbols |-> {Symbol},
     sides   |-> {"buy", "exit"},
     reads   |-> {"ok", "retErr", "transport"},
     orders  |-> {"accepted", "rejected", "transport"},
     fills   |-> {"full", "half"},
     notify  |-> {"sent"}]

\* The environment e under each of the credential pairs of creds.
Credentialed(e, creds) ==
    { [e EXCEPT !.apiKey = c[1], !.apiSecret = c[2]] : c \in creds }

\* Both credentials set, or one of them missing from the process environment.
SetOrMissing == {<<"key", "secret">>, <<Unset, "secret">>, <<"key", Unset>>}

InitWith(envs, active, balances, markets, positionLists) ==
    /\ env \in envs
    /\ exBalance \in balances
    /\ exMarket \in markets
    /\ exPos \in positionLists
    /\ exOrders = <<>>
    /\ pc = [i \in Procs |-> IF i \in active THEN "idle" ELSE "off"]
    /\ sig = [i \in Procs |-> [symbol |-> "", side |-> ""]]
    /\ loc = [i \in Procs |-> NoLocals]
    /\ calls = [i \in Procs |-> <<>>]
    /\ notified = [i \in Procs |-> <<>>]
    /\ resp = [i \in Procs |-> NoResp]

\* One webhook request against any account and instrument.
Init == InitWith(Credentialed(AnyEnv, SetOrMissing), {1}, Balances, Markets, PositionLists)

(***************************************************************************)
(* Helpers of the handler.                                                 *)
(***************************************************************************)
\* str.lower() on the side strings of SignalSides.
Lower(s) == IF s = "BUY" THEN "buy" ELSE IF s = "EXIT" THEN "exit" ELSE s

Call(op, arg) == [op |-> op, arg |-> arg]

\* return jsonify({"status": st, "reason": reason}), 200
Return(i, st, reason) ==
    /\ resp' = [resp EXCEPT ![i] = [status |-> st, reason |-> reason]]
    /\ pc' = [pc EXCEPT ![i] = "done"]

\* An exception leaves webhook(): Flask answers 500, no structured status.
Raise(i, exc) == Return(i, "fault", exc)

\* lines 122-131 and the dispatch of lines 133, 186, 230-231
\* Variants of Route: an Open that skips set-leverage, and a 'sell' that
\* is taken for an Open.
Route_SkipLeverage(symbol, side_cmd) ==
    IF symbol = "" \/ side_cmd = "" THEN "missing"
    ELSE IF side_cmd = "buy" THEN "open_balance"
    ELSE IF side_cmd = "exit" THEN "positions"
    ELSE "ignored"

Route_SellOpens(symbol, side_cmd) ==
    IF symbol = "" \/ side_cmd = "" THEN "missing"
    ELSE IF side_cmd \in {"buy", "sell"} THEN "set_leverage"
    ELSE IF side_cmd = "exit" THEN "positions"
    ELSE "ignored"

\* lines 127, 133, 186, 230: where the handler goes for a symbol and a
\* lower-cased side; the first exchange request of the Open path is
\* set-leverage, of the Close path the position list.
Route(symbol, side_cmd) ==
    IF symbol = "" \/ side_cmd = "" THEN "missing"
    ELSE IF side_cmd = "buy" THEN "set_leverage"
    ELSE IF side_cmd = "exit" THEN "positions"
    ELSE "ignored"

Receive(i) ==
    /\ pc[i] = "idle"
    /\ \E symbol \in env.symbols, side \in env.sides :
          LET to == Route(symbol, Lower(side)) IN
          /\ sig' = [sig EXCEPT ![i] = [symbol |-> symbol, side |-> side]]
          /\ IF to = "missing"
                THEN Return(i, "ignored", "missing symbol or side")
             ELSE IF to = "ignored"
                THEN Return(i, "ignored", "")
             ELSE /\ pc' = [pc EXCEPT ![i] = to]
                  /\ UNCHANGED resp
    /\ UNCHANGED <<exVars, loc, calls, notified>>

Value(v)  == [exc |-> "", val |-> v]
Raises(e) == [exc |-> e, val |-> None]

\* lines 32-36: str + None raises TypeError, None.encode() AttributeError;
\* empty strings concatenate and key the HMAC like any other string.
sign_request(key, secret) ==
    IF key = Unset THEN Raises("TypeError")
    ELSE IF secret = Unset THEN Raises("AttributeError")
    ELSE Value(<<"hmac-sha256", key, secret>>)

\* http_get and http_post (lines 42, 57) sign before they send.
Signs == sign_request(env.apiKey, env.apiSecret).exc = ""

\* The program counters at which the next step is an exchange request.
RequestPcs ==
    {"set_leverage", "open_balance", "symbol_info", "ticker", "create_long",
     "open_execs", "positions", "close_balance", "create_close", "close_execs"}

\* lines 42 and 57: sign_request raises, nothing is sent, and the
\* exception leaves webhook().
SignFails(i) ==
    /\ pc[i] \in RequestPcs
    /\ ~Signs
    /\ Raise(i, sign_request(env.apiKey, env.apiSecret).exc)
    /\ UNCHANGED <<exVars, sig, loc, calls, notified>>

\* A variant of SetLeverage that reads the response and returns error on a
\* non-success retCode.
SetLeverage_Gates(i) ==
    /\ pc[i] = "set_leverage"
    /\ Signs
    /\ \E out \in env.reads \cap {"ok", "retErr", "transport"} :
          /\ calls' = [calls EXCEPT ![i] =
                 Append(@, Call("set-leverage",
                     [buy_leverage |-> LONG_LEVERAGE, ret |-> out]))]
          /\ IF out = "transport"
                THEN Raise(i, "RequestException")
             ELSE IF out = "retErr"
                THEN Return(i, "error", "rejected")
             ELSE /\ pc' = [pc EXCEPT ![i] = "open_balance"]
                  /\ UNCHANGED resp
    /\ UNCHANGED <<exVars, sig, loc, notified>>

\* lines 137-142: the response of set-leverage is never read.
SetLeverage(i) ==
    /\ pc[i] = "set_leverage"
    /\ Signs
    /\ \E out \in env.reads \cap {"ok", "retErr", "transport"} :
          /\ calls' = [calls EXCEPT ![i] =
                 Append(@, Call("set-leverage",
                     [buy_leverage |-> LONG_LEVERAGE, ret |-> out]))]
          /\ IF out = "transport"
                THEN Raise(i, "RequestException")
                ELSE /\ pc' = [pc EXCEPT ![i] = "open_balance"]
                     /\ UNCHANGED resp
    /\ UNCHANGED <<exVars, sig, loc, notified>>

(***************************************************************************)
(* Bybit utilities (lines 70-101).  `out` is what the exchange does with   *)
(* the request: "ok", a non-success retCode ("retErr"), retCode 0 with an  *)
(* empty result list ("empty") or without the field ("nofield"), or a      *)
(* transport failure ("transport": requests or .json() raises).            *)
(* Each returns [exc, val]: the exception that leaves it, or its value.    *)
(***************************************************************************)
get_wallet_balance(out, balance) ==
    CASE out = "ok"        -> Value(ParseFloat(balance))
      [] out = "nofield"   -> Value(Zero)
      [] out = "retErr"    -> Value(Zero)
      [] out = "empty"     -> Raises("IndexError")
      [] out = "transport" -> Raises("RequestException")

get_symbol_info(out, market) ==
    CASE out = "ok"        -> Value(<<ParseFloat(market.minOrderQty),
                                      ParseFloat(market.qtyStep)>>)
      [] out = "retErr"    -> Value(<<Zero, Zero>>)
      [] out = "empty"     -> Raises("IndexError")
      [] out = "nofield"   -> Raises("KeyError")
      [] out = "transport" -> Raises("RequestException")

\* Only the lookup is inside the try: http_get(...).json() is not.
get_ticker_price(out, market) ==
    CASE out = "ok"        -> Value(ParseFloat(market.lastPrice))
      [] out = "retErr"    -> Value(Zero)
      [] out = "empty"     -> Value(Zero)
      [] out = "nofield"   -> Value(Zero)
      [] out = "transport" -> Raises("RequestException")

get_positions(out, positions) ==
    CASE out = "ok"        -> Value(positions)
      [] out = "retErr"    -> Value(<<>>)
      [] out = "transport" -> Raises("RequestException")

get_executions(out, fills) ==
    CASE out = "ok"        -> Value(fills)
      [] out = "retErr"    -> Value(<<>>)
      [] out = "transport" -> Raises("RequestException")

(***************************************************************************)
(* Position sizing and reconciliation (lines 147-151, 169-174, 212-220).   *)
(***************************************************************************)
\* Mutant of InvalidMarket: only negative values are refused.
InvalidMarket_NegativeOnly(price, step) == RatLT(price, Zero) \/ RatLT(step, Zero)

\* line 147
InvalidMarket(price, step) == RatLE(price, Zero) \/ RatLE(step, Zero)

\* Mutant of OrderQty: the floored quantity without the clamp to min_q.
OrderQty_NoClamp(balance, min_q, step, price) ==
    RatMul(step,
           IntRat(Floor(RatDiv(RatMul(balance, IntRat(LONG_LEVERAGE)),
                               RatMul(price, step)))))

\* Mutant of OrderQty: one step above the floored quantity.
OrderQty_RoundUp(balance, min_q, step, price) ==
    RatMax(min_q,
           RatMul(step,
                  IntRat(Floor(RatDiv(RatMul(balance, IntRat(LONG_LEVERAGE)),
                                      RatMul(price, step))) + 1)))

\* line 151
OrderQty(balance, min_q, step, price) ==
    RatMax(min_q,
           RatMul(step,
                  IntRat(Floor(RatDiv(RatMul(balance, IntRat(LONG_LEVERAGE)),
                                      RatMul(price, step))))))

RECURSIVE SumQty(_)
SumQty(execs) ==
    IF execs = <<>> THEN Zero
    ELSE RatAdd(ParseFloat(Head(execs).execQty), SumQty(Tail(execs)))

RECURSIVE SumPriceQty(_)
SumPriceQty(execs) ==
    IF execs = <<>> THEN Zero
    ELSE RatAdd(RatMul(ParseFloat(Head(execs).execPrice),
                       ParseFloat(Head(execs).execQty)),
                SumPriceQty(Tail(execs)))

\* e.get('execFee', 0) summed
RECURSIVE SumFee(_)
SumFee(execs) ==
    IF execs = <<>> THEN Zero
    ELSE RatAdd(IF Head(execs).execFee = NoField THEN Zero
                ELSE ParseFloat(Head(execs).execFee),
                SumFee(Tail(execs)))

RECURSIVE SumPrice(_)
SumPrice(execs) ==
    IF execs = <<>> THEN Zero
    ELSE RatAdd(ParseFloat(Head(execs).execPrice), SumPrice(Tail(execs)))

\* Mutant of AvgPrice: the plain mean of the fill prices.
AvgPrice_Unweighted(execs, fallback) ==
    IF execs = <<>> THEN Value(fallback)
    ELSE IF SumQty(execs) = Zero THEN Raises("ZeroDivisionError")
    ELSE Value(RatDiv(SumPrice(execs), IntRat(Len(execs))))

\* lines 169-172 and 212-215
AvgPrice(execs, fallback) ==
    IF execs = <<>> THEN Value(fallback)
    ELSE IF SumQty(execs) = Zero THEN Raises("ZeroDivisionError")
    ELSE Value(RatDiv(SumPriceQty(execs), SumQty(execs)))

\* line 174
RiskPct(qty, avg_price, balance) ==
    IF RatLT(Zero, balance)
    THEN RatMul(RatDiv(RatDiv(RatMul(qty, avg_price), IntRat(LONG_LEVERAGE)), balance),
                IntRat(100))
    ELSE Zero

(***************************************************************************)
(* The exchange's side of an order (the environment of lines 154-161 and   *)
(* 196-204): the fills of an accepted market order, and what they do to    *)
(* the position and the balance.                                           *)
(***************************************************************************)
\* The fills an ImmediateOrCancel market order may get: at the last price
\* or 2% above it, for all, half or none of `cap`, the fee field optional.
FillKind(kind, cap, px) ==
    LET up   == RatMul(px, <<51, 50>>)
        half == RatDiv(cap, IntRat(2))
    IN  CASE kind = "full"      -> [execPrice |-> up, execQty |-> cap,  execFee |-> <<5, 10>>]
          [] kind = "half"      -> [execPrice |-> px, execQty |-> half, execFee |-> <<5, 10>>]
          [] kind = "halfNoFee" -> [execPrice |-> up, execQty |-> half, execFee |-> NoField]
          [] kind = "zero"      -> [execPrice |-> px, execQty |-> Zero, execFee |-> <<0, 1>>]

FillLists(kinds, cap, px) ==
    { fs \in UNION { [1..n -> { FillKind(k, cap, px) : k \in kinds }] : n \in 0..MaxFills } :
         RatLE(SumQty(fs), cap) }

\* Index of the first position entry of the long side, 0 when there is none.
LongIndex(positions) ==
    LET S == { k \in 1..Len(positions) : positions[k].side = "Buy" }
    IN  IF S = {} THEN 0 ELSE CHOOSE k \in S : \A m \in S : k <= m

\* Index of the first long entry with a positive size, 0 when there is none.
OpenLongIndex(positions) ==
    LET S == { k \in 1..Len(positions) :
                  /\ positions[k].side = "Buy"
                  /\ RatLT(Zero, ParseFloat(positions[k].size)) }
    IN  IF S = {} THEN 0 ELSE CHOOSE k \in S : \A m \in S : k <= m

\* The position list after a Buy order's fills.
PositionsAfterBuy(positions, fills) ==
    LET q == SumQty(fills)
        k == LongIndex(positions)
    IN  IF q = Zero THEN positions
        ELSE IF k = 0
        THEN Append(positions, [side |-> "Buy", size |-> q,
                                avgPrice |-> RatDiv(SumPriceQty(fills), q)])
        ELSE LET old  == positions[k]
                 size == RatAdd(ParseFloat(old.size), q)
                 cost == RatAdd(RatMul(ParseFloat(old.size), ParseFloat(old.avgPrice)),
                                SumPriceQty(fills))
             IN  [positions EXCEPT ![k] =
                     [side |-> "Buy", size |-> size, avgPrice |-> RatDiv(cost, size)]]

\* The position list after a Sell order's fills: they reduce the open long,
\* and what they sell beyond it (an order that is not reduce-only) is a short.
PositionsAfterSell(positions, fills) ==
    LET k    == OpenLongIndex(positions)
        q    == SumQty(fills)
        long == IF k = 0 THEN Zero ELSE ParseFloat(positions[k].size)
        rest == IF k = 0 THEN positions
                ELSE [positions EXCEPT ![k].size = RatMax(Zero, RatSub(long, q))]
    IN  IF RatLE(q, long) THEN rest
        ELSE Append(rest, [side |-> "Sell", size |-> RatSub(q, long),
                           avgPrice |-> RatDiv(SumPriceQty(fills), q)])

\* Available balance after a Buy: the margin of the fills is locked.
BalanceAfterBuy(balance, fills) ==
    RatMax(Zero, RatSub(ParseFloat(balance),
                        RatDiv(SumPriceQty(fills), IntRat(LONG_LEVERAGE))))

\* Available balance after a closing Sell: margin released, PnL and fees booked.
BalanceAfterSell(balance, entry, fills) ==
    LET cost == RatMul(entry, SumQty(fills))
    IN  RatMax(Zero,
               RatSub(RatAdd(RatAdd(ParseFloat(balance),
                                    RatDiv(cost, IntRat(LONG_LEVERAGE))),
                             RatSub(SumPriceQty(fills), cost)),
                      SumFee(fills)))

\* min of two rationals
RatMin(a, b) == IF RatLT(b, a) THEN b ELSE a

\* The size of the open long, Zero when the account is flat.
LongSize(positions) ==
    IF OpenLongIndex(positions) = 0 THEN Zero
    ELSE ParseFloat(positions[OpenLongIndex(positions)].size)

\* The most an order can execute: a reduce-only order never more than the
\* open long, and nothing at all once the position is flat.
ExchangeCap(order, positions) ==
    IF order.reduce_only THEN RatMin(order.qty, LongSize(positions)) ELSE order.qty

\* The exchange accepts `order` of invocation i and executes `fills`.
ExchangeFill(i, order, fills) ==
    /\ exOrders' = Append(exOrders, [by |-> i, order |-> order, fills |-> fills,
                                     before |-> LongSize(exPos),
                                     balance |-> exBalance])
    /\ exPos' = IF order.side = "Buy" THEN PositionsAfterBuy(exPos, fills)
                ELSE PositionsAfterSell(exPos, fills)
    /\ exBalance' =
          IF order.side = "Buy" THEN BalanceAfterBuy(exBalance, fills)
          ELSE BalanceAfterSell(exBalance,
                  IF OpenLongIndex(exPos) = 0 THEN Zero
                  ELSE ParseFloat(exPos[OpenLongIndex(exPos)].avgPrice), fills)
    /\ UNCHANGED <<env, exMarket>>

\* retCode of the order-create response
RetCode(out) == IF out = "accepted" THEN 0 ELSE 10001

\* Mutant of OrderFailed: the result code is not looked at.
OrderFailed_Never(retCode) == FALSE

\* lines 163 and 206: resp_data.get("retCode") != 0
OrderFailed(retCode) == retCode # 0

\* lines 154-161: the body of the opening order
LongOrder(qty) ==
    [side |-> "Buy", orderType |-> "Market", qty |-> qty,
     timeInForce |-> "ImmediateOrCancel", reduce_only |-> FALSE]

\* A variant of CloseOrder: a plain Market Sell, able to open a short.
CloseOrder_NotReduceOnly(qty) ==
    [side |-> "Sell", orderType |-> "Market", qty |-> qty,
     timeInForce |-> "ImmediateOrCancel", reduce_only |-> FALSE]

\* lines 196-204: the body of the closing order
CloseOrder(qty) ==
    [side |-> "Sell", orderType |-> "Market", qty |-> qty,
     timeInForce |-> "ImmediateOrCancel", reduce_only |-> TRUE]

\* Mutant of SelectOriginal: the first entry with side Buy, whatever its size.
SelectOriginal_AnySize(positions) ==
    IF LongIndex(positions) = 0 THEN None ELSE positions[LongIndex(positions)]

\* line 188: the first entry with side Buy and size > 0, None when there is none
SelectOriginal(positions) ==
    IF OpenLongIndex(positions) = 0 THEN None
    ELSE positions[OpenLongIndex(positions)]

\* Mutant of Pnl: the sign convention of a short.
Pnl_Short(exit_price, entry_price, qty) == RatMul(RatSub(entry_price, exit_price), qty)

\* A variant of PnlQty: the quantity the fills executed.
PnlQty_Executed(qty, execs) == SumQty(execs)

\* lines 193 and 217: the quantity in the PnL is the qty of line 193, the
\* observed position size, whatever the fills of line 211 are.
PnlQty(qty, execs) == qty

\* line 217
Pnl(exit_price, entry_price, qty) == RatMul(RatSub(exit_price, entry_price), qty)

\* line 219
NetPnl(pnl, fee) == RatSub(pnl, fee)

\* line 220
PctChange(net_pnl, balance_before) ==
    IF RatLT(Zero, balance_before)
    THEN RatMul(RatDiv(net_pnl, balance_before), IntRat(100))
    ELSE Zero

(***************************************************************************)
(* The Open path (lines 133-183).                                          *)
(***************************************************************************)
\* line 144
OpenGetBalance(i) ==
    /\ pc[i] = "open_balance"
    /\ Signs
    /\ \E out \in env.reads :
          LET r == get_wallet_balance(out, exBalance) IN
          /\ calls' = [calls EXCEPT ![i] = Append(@, Call("wallet-balance", [ret |-> out]))]
          /\ IF r.exc # ""
                THEN /\ Raise(i, r.exc)
                     /\ UNCHANGED loc
                ELSE /\ loc' = [loc EXCEPT ![i].balance = r.val]
                     /\ pc' = [pc EXCEPT ![i] = "symbol_info"]
                     /\ UNCHANGED resp
    /\ UNCHANGED <<exVars, sig, notified>>

\* line 145
GetSymbolInfo(i) ==
    /\ pc[i] = "symbol_info"
    /\ Signs
    /\ \E out \in env.reads :
          LET r == get_symbol_info(out, exMarket) IN
          /\ calls' = [calls EXCEPT ![i] = Append(@, Call("instruments-info", [ret |-> out]))]
          /\ IF r.exc # ""
                THEN /\ Raise(i, r.exc)
                     /\ UNCHANGED loc
                ELSE /\ loc' = [loc EXCEPT ![i].min_q = r.val[1], ![i].step = r.val[2]]
                     /\ pc' = [pc EXCEPT ![i] = "ticker"]
                     /\ UNCHANGED resp
    /\ UNCHANGED <<exVars, sig, notified>>

\* lines 146-152: the price fetch, the validation and the sizing
GetTickerPrice(i) ==
    /\ pc[i] = "ticker"
    /\ Signs
    /\ \E out \in env.reads :
          LET r == get_ticker_price(out, exMarket)
              l == loc[i]
          IN
          /\ calls' = [calls EXCEPT ![i] = Append(@, Call("tickers", [ret |-> out]))]
          /\ IF r.exc # ""
                THEN /\ Raise(i, r.exc)
                     /\ UNCHANGED loc
             ELSE IF InvalidMarket(r.val, l.step)
                THEN /\ Return(i, "error", "invalid price or step")
                     /\ loc' = [loc EXCEPT ![i].price = r.val]
             ELSE IF RatMul(r.val, l.step) = Zero
                THEN /\ Raise(i, "ZeroDivisionError")
                     /\ loc' = [loc EXCEPT ![i].price = r.val]
             ELSE /\ loc' = [loc EXCEPT ![i].price = r.val,
                                        ![i].qty = OrderQty(l.balance, l.min_q, l.step, r.val)]
                  /\ pc' = [pc EXCEPT ![i] = "create_long"]
                  /\ UNCHANGED resp
    /\ UNCHANGED <<exVars, sig, notified>>

\* lines 154-167
CreateLongOrder(i) ==
    /\ pc[i] = "create_long"
    /\ Signs
    /\ LET order == LongOrder(loc[i].qty) IN
       \E out \in env.orders :
          /\ out = "accepted" => RatLT(Zero, ExchangeCap(order, exPos))
          /\ calls' = [calls EXCEPT ![i] =
                 Append(@, Call("order/create", [order |-> order, ret |-> out]))]
          /\ IF out = "transport"
                THEN /\ Raise(i, "RequestException")
                     /\ UNCHANGED <<exVars, loc>>
             ELSE IF OrderFailed(RetCode(out))
                THEN /\ Return(i, "error", "rejected")
                     /\ UNCHANGED <<exVars, loc>>
             ELSE /\ \E fills \in FillLists(env.fills, ExchangeCap(order, exPos), ParseFloat(exMarket.lastPrice)) :
                        ExchangeFill(i, order, fills)
                  /\ loc' = [loc EXCEPT ![i].order_id = Len(exOrders) + 1]
                  /\ pc' = [pc EXCEPT ![i] = "open_execs"]
                  /\ UNCHANGED resp
    /\ UNCHANGED <<sig, notified>>

\* lines 168-181
OpenGetExecutions(i) ==
    /\ pc[i] = "open_execs"
    /\ Signs
    /\ \E out \in env.reads \cap {"ok", "retErr", "transport"} :
          LET r == get_executions(out, exOrders[loc[i].order_id].fills)
              l == loc[i]
              a == AvgPrice(r.val, l.price)
          IN
          /\ calls' = [calls EXCEPT ![i] = Append(@, Call("execution/list", [ret |-> out]))]
          /\ IF r.exc # ""
                THEN /\ Raise(i, r.exc)
                     /\ UNCHANGED loc
             ELSE IF a.exc # ""
                THEN /\ Raise(i, a.exc)
                     /\ loc' = [loc EXCEPT ![i].execs = r.val]
             ELSE /\ loc' = [loc EXCEPT ![i].execs = r.val,
                                        ![i].avg_price = a.val,
                                        ![i].pct = RiskPct(l.qty, a.val, l.balance)]
                  /\ pc' = [pc EXCEPT ![i] = "notify"]
                  /\ UNCHANGED resp
    /\ UNCHANGED <<exVars, sig, notified>>

(***************************************************************************)
(* The Close path (lines 186-228).                                         *)
(***************************************************************************)
\* lines 187-194
GetPositions(i) ==
    /\ pc[i] = "positions"
    /\ Signs
    /\ \E out \in env.reads \cap {"ok", "retErr", "transport"} :
          LET r == get_positions(out, exPos) IN
          /\ calls' = [calls EXCEPT ![i] = Append(@, Call("position/list", [ret |-> out]))]
          /\ IF r.exc # ""
                THEN /\ Raise(i, r.exc)
                     /\ UNCHANGED loc
             ELSE IF SelectOriginal(r.val) = None
                THEN /\ Return(i, "no_position", "")
                     /\ loc' = [loc EXCEPT ![i].positions = <<r.val>>]
             ELSE /\ loc' = [loc EXCEPT
                        ![i].positions = <<r.val>>,
                        ![i].original = SelectOriginal(r.val),
                        ![i].qty = ParseFloat(SelectOriginal(r.val).size),
                        ![i].entry_price = ParseFloat(SelectOriginal(r.val).avgPrice)]
                  /\ pc' = [pc EXCEPT ![i] = "close_balance"]
                  /\ UNCHANGED resp
    /\ UNCHANGED <<exVars, sig, notified>>

\* line 195
CloseGetBalance(i) ==
    /\ pc[i] = "close_balance"
    /\ Signs
    /\ \E out \in env.reads :
          LET r == get_wallet_balance(out, exBalance) IN
          /\ calls' = [calls EXCEPT ![i] = Append(@, Call("wallet-balance", [ret |-> out]))]
          /\ IF r.exc # ""
                THEN /\ Raise(i, r.exc)
                     /\ UNCHANGED loc
                ELSE /\ loc' = [loc EXCEPT ![i].balance_before = r.val]
                     /\ pc' = [pc EXCEPT ![i] = "create_close"]
                     /\ UNCHANGED resp
    /\ UNCHANGED <<exVars, sig, notified>>

\* lines 196-210
CreateCloseOrder(i) ==
    /\ pc[i] = "create_close"
    /\ Signs
    /\ LET order == CloseOrder(loc[i].qty) IN
       \E out \in env.orders :
          /\ out = "accepted" => RatLT(Zero, ExchangeCap(order, exPos))
          /\ calls' = [calls EXCEPT ![i] =
                 Append(@, Call("order/create", [order |-> order, ret |-> out]))]
          /\ IF out = "transport"
                THEN /\ Raise(i, "RequestException")
                     /\ UNCHANGED <<exVars, loc>>
             ELSE IF OrderFailed(RetCode(out))
                THEN /\ Return(i, "error", "rejected")
                     /\ UNCHANGED <<exVars, loc>>
             ELSE /\ \E fills \in FillLists(env.fills, ExchangeCap(order, exPos), ParseFloat(exMarket.lastPrice)) :
                        ExchangeFill(i, order, fills)
                  /\ loc' = [loc EXCEPT ![i].order_id = Len(exOrders) + 1]
                  /\ pc' = [pc EXCEPT ![i] = "close_execs"]
                  /\ UNCHANGED resp
    /\ UNCHANGED <<sig, notified>>

\* A variant of CloseGetExecutions that fetches the balance again after the
\* closing order and divides by it.
CloseGetExecutions_Refetch(i) ==
    /\ pc[i] = "close_execs"
    /\ Signs
    /\ \E out \in env.reads \cap {"ok", "retErr", "transport"} :
          LET r   == get_executions(out, exOrders[loc[i].order_id].fills)
              l   == loc[i]
              x   == AvgPrice(r.val, l.entry_price)
              pnl == Pnl(x.val, l.entry_price, PnlQty(l.qty, r.val))
              fee == SumFee(r.val)
              net == NetPnl(pnl, fee)
              b   == get_wallet_balance("ok", exBalance).val
          IN
          /\ IF r.exc # ""
                THEN /\ Raise(i, r.exc)
                     /\ calls' = [calls EXCEPT ![i] = Append(@, Call("execution/list", [ret |-> out]))]
                     /\ UNCHANGED loc
             ELSE IF x.exc # ""
                THEN /\ Raise(i, x.exc)
                     /\ calls' = [calls EXCEPT ![i] = Append(@, Call("execution/list", [ret |-> out]))]
                     /\ loc' = [loc EXCEPT ![i].execs = r.val]
             ELSE /\ calls' = [calls EXCEPT ![i] =
                         Append(Append(@, Call("execution/list", [ret |-> out])),
                                Call("wallet-balance", [ret |-> "ok"]))]
                  /\ loc' = [loc EXCEPT ![i].execs = r.val,
                                        ![i].exit_price = x.val,
                                        ![i].pnl = pnl,
                                        ![i].fee = fee,
                                        ![i].net_pnl = net,
                                        ![i].balance_before = b,
                                        ![i].pct_change = PctChange(net, b)]
                  /\ pc' = [pc EXCEPT ![i] = "notify"]
                  /\ UNCHANGED resp
    /\ UNCHANGED <<exVars, sig, notified>>

\* lines 211-226
CloseGetExecutions(i) ==
    /\ pc[i] = "close_execs"
    /\ Signs
    /\ \E out \in env.reads \cap {"ok", "retErr", "transport"} :
          LET r   == get_executions(out, exOrders[loc[i].order_id].fills)
              l   == loc[i]
              x   == AvgPrice(r.val, l.entry_price)
              pnl == Pnl(x.val, l.entry_price, PnlQty(l.qty, r.val))
              fee == SumFee(r.val)
              net == NetPnl(pnl, fee)
          IN
          /\ calls' = [calls EXCEPT ![i] = Append(@, Call("execution/list", [ret |-> out]))]
          /\ IF r.exc # ""
                THEN /\ Raise(i, r.exc)
                     /\ UNCHANGED loc
             ELSE IF x.exc # ""
                THEN /\ Raise(i, x.exc)
                     /\ loc' = [loc EXCEPT ![i].execs = r.val]
             ELSE /\ loc' = [loc EXCEPT ![i].execs = r.val,
                                        ![i].exit_price = x.val,
                                        ![i].pnl = pnl,
                                        ![i].fee = fee,
                                        ![i].net_pnl = net,
                                        ![i].pct_change = PctChange(net, l.balance_before)]
                  /\ pc' = [pc EXCEPT ![i] = "notify"]
                  /\ UNCHANGED resp
    /\ UNCHANGED <<exVars, sig, notified>>

\* A variant of SendTelegram in which a failed send reaches the caller.
SendTelegram_Escalates(i) ==
    /\ pc[i] = "notify"
    /\ \E out \in env.notify :
          /\ notified' = [notified EXCEPT ![i] = Append(@, out)]
          /\ IF out = "failed" THEN Raise(i, "ConnectionError")
                               ELSE Return(i, "ok", "")
    /\ UNCHANGED <<exVars, sig, loc, calls>>

\* lines 182-183 and 227-228: send_telegram (lines 104-115) never raises
SendTelegram(i) ==
    /\ pc[i] = "notify"
    /\ \E out \in env.notify :
          notified' = [notified EXCEPT ![i] = Append(@, out)]
    /\ Return(i, "ok", "")
    /\ UNCHANGED <<exVars, sig, loc, calls>>

Next ==
    \E i \in Procs :
        \/ Receive(i)
        \/ SignFails(i)
        \/ SetLeverage(i)
        \/ OpenGetBalance(i)
        \/ GetSymbolInfo(i)
        \/ GetTickerPrice(i)
        \/ CreateLongOrder(i)
        \/ OpenGetExecutions(i)
        \/ GetPositions(i)
        \/ CloseGetBalance(i)
        \/ CreateCloseOrder(i)
        \/ CloseGetExecutions(i)
        \/ SendTelegram(i)

Spec == Init /\ [][Next]_vars

\* Two webhook requests in flight against one account holding a long of 2.
InitRace ==
    InitWith(Credentialed(RaceEnv, SetOrMissing), Procs, {<<7, 1>>},
             {[lastPrice |-> <<2, 1>>, minOrderQty |-> <<1, 1>>, qtyStep |-> <<1, 1>>]},
             {<< [side |-> "Buy", size |-> <<2, 1>>, avgPrice |-> <<2, 1>>] >>})

SpecRace == InitRace /\ [][Next]_vars

\* One webhook request under every combination of API key and API secret.
InitConfig ==
    InitWith(Credentialed(RaceEnv, ApiKeys \X ApiSecrets), {1}, {<<7, 1>>},
             {[lastPrice |-> <<2, 1>>, minOrderQty |-> <<1, 1>>, qtyStep |-> <<1, 1>>]},
             {<< [side |-> "Buy", size |-> <<2, 1>>, avgPrice |-> <<2, 1>>] >>})

SpecConfig == InitConfig /\ [][Next]_vars

(***************************************************************************)
(* What the claims are stated in.                                          *)
(***************************************************************************)
SideCmd(i) == Lower(sig[i].side)
Started(i) == pc[i] \notin {"off", "idle"}
Finished(i) == pc[i] = "done"
OnOpenPath(i)  == Started(i) /\ sig[i].symbol # "" /\ SideCmd(i) = "buy"
OnClosePath(i) == Started(i) /\ sig[i].symbol # "" /\ SideCmd(i) = "exit"

\* The positions of the calls of invocation i to endpoint op.
CallIdx(i, op) == { k \in 1..Len(calls[i]) : calls[i][k].op = op }
Made(i, op) == CallIdx(i, op) # {}

\* The order bodies invocation i has submitted with the given side.
Submitted(i, side) ==
    { calls[i][k].arg.order : k \in { n \in CallIdx(i, "order/create") :
                                        calls[i][n].arg.order.side = side } }

\* The order-create calls of invocation i the exchange answered with retCode # 0.
RejectedIdx(i) ==
    { k \in CallIdx(i, "order/create") : calls[i][k].arg.ret = "rejected" }

\* No entry of the list is a long with a positive size.
NoOpenLong(ps) ==
    \A k \in 1..Len(ps) : ~(ps[k].side = "Buy" /\ ps[k].size[1] > 0)

\* q is k * step for a natural number k.
IsMultiple(q, step) ==
    /\ step[1] > 0
    /\ q[1] >= 0
    /\ (q[1] * step[2]) % (q[2] * step[1]) = 0

Positive(r) == r[1] > 0

(***************************************************************************)
(* C1..C10                                                                 *)
(***************************************************************************)
\* C1: a Close invocation that observed a position list without any entry
\* of side Buy and size > 0 has returned no_position, and has made no
\* order-create call, no balance fetch, no fill query and no notification.
C1_NoPositionNoOrder ==
    \A i \in Procs :
        (/\ OnClosePath(i)
         /\ loc[i].positions # None
         /\ NoOpenLong(loc[i].positions[1]))
        => /\ Finished(i)
           /\ resp[i].status = "no_position"
           /\ ~Made(i, "order/create")
           /\ ~Made(i, "wallet-balance")
           /\ ~Made(i, "execution/list")
           /\ notified[i] = <<>>

\* C1 witness: a Close invocation saw a list that holds a Buy entry of size
\* 0 and no open long, and returned no_position.
C1_Witness ==
    \E i \in Procs :
        /\ OnClosePath(i)
        /\ loc[i].positions # None
        /\ NoOpenLong(loc[i].positions[1])
        /\ \E k \in 1..Len(loc[i].positions[1]) : loc[i].positions[1][k].side = "Buy"
        /\ resp[i].status = "no_position"

\* C2: on both paths, an order-create call answered with retCode # 0 ends
\* the invocation with status error carrying the rejection, and the
\* invocation never makes an execution-list call.
C2_RejectedNoFillQuery ==
    \A i \in Procs :
        RejectedIdx(i) # {}
        => /\ Finished(i)
           /\ resp[i] = [status |-> "error", reason |-> "rejected"]
           /\ ~Made(i, "execution/list")
           /\ notified[i] = <<>>

\* C2 witness: a closing order was rejected and the invocation has returned.
C2_Witness ==
    \E i \in Procs :
        /\ OnClosePath(i)
        /\ RejectedIdx(i) # {}
        /\ Finished(i)

C4_NotionalWithinBalance ==
    \A i \in Procs : \A o \in Submitted(i, "Buy") :
        RatLE(RatMul(o.qty, loc[i].price),
              RatMul(loc[i].balance, IntRat(LONG_LEVERAGE)))

\* C4 amended: the notional of every opening order is within
\* balance * leverage unless the order is for exactly minOrderQty (the
\* floored quantity was below the minimum and was clamped up to it).
C4_NotionalWithinBalanceOrMinimum ==
    \A i \in Procs : \A o \in Submitted(i, "Buy") :
        \/ RatLE(RatMul(o.qty, loc[i].price),
                 RatMul(loc[i].balance, IntRat(LONG_LEVERAGE)))
        \/ o.qty = loc[i].min_q

\* C4 witness: an opening order above the minimum whose notional is
\* strictly below balance * leverage: the target was rounded down.
C4_Witness ==
    \E i \in Procs : \E o \in Submitted(i, "Buy") :
        /\ o.qty # loc[i].min_q
        /\ RatLT(RatMul(o.qty, loc[i].price),
                 RatMul(loc[i].balance, IntRat(LONG_LEVERAGE)))

\* C5 as stated: an Open invocation whose balance fetch came back with a
\* non-success result code, or whose instrument or price fetch failed,
\* makes no order-create call.
C5_FetchFailureNoOrder ==
    \A i \in Procs :
        (/\ OnOpenPath(i)
         /\ \E k \in 1..Len(calls[i]) :
               \/ calls[i][k].op = "wallet-balance" /\ calls[i][k].arg.ret = "retErr"
               \/ calls[i][k].op = "instruments-info" /\ calls[i][k].arg.ret # "ok"
               \/ calls[i][k].op = "tickers" /\ calls[i][k].arg.ret # "ok")
        => ~Made(i, "order/create")

\* C6: an Open invocation whose validation (line 147) sees a fetched price
\* <= 0 or a fetched qtyStep <= 0 has returned error 'invalid price or
\* step' without evaluating the sizing division, and has made no
\* order-create call, no fill query and no notification.
C6_InvalidMarketAborts ==
    \A i \in Procs :
        (/\ OnOpenPath(i)
         /\ loc[i].step # None
         /\ loc[i].price # None
         /\ (loc[i].price[1] <= 0 \/ loc[i].step[1] <= 0))
        => /\ Finished(i)
           /\ resp[i] = [status |-> "error", reason |-> "invalid price or step"]
           /\ loc[i].qty = None
           /\ ~Made(i, "order/create")
           /\ ~Made(i, "execution/list")
           /\ notified[i] = <<>>

\* C6 witness: the instrument fetch failed (step 0) while the price is
\* positive: the division by price * step would have been by zero.
C6_Witness ==
    \E i \in Procs :
        /\ OnOpenPath(i)
        /\ loc[i].step = Zero
        /\ loc[i].price # None
        /\ Positive(loc[i].price)
        /\ resp[i].status = "error"

\* C7 as stated: every invocation that has terminated returned one of the
\* structured statuses ok, no_position, ignored, error.
C7_StructuredStatus ==
    \A i \in Procs :
        Finished(i) => resp[i].status \in {"ok", "no_position", "ignored", "error"}

\* The quantity the accepted Sell orders have executed.
RECURSIVE SoldIn(_)
SoldIn(orders) ==
    IF orders = <<>> THEN Zero
    ELSE RatAdd(IF Head(orders).order.side = "Sell" THEN SumQty(Head(orders).fills)
                ELSE Zero,
                SoldIn(Tail(orders)))

\* The long the account held before the first accepted order.
LongBeforeOrders == IF exOrders = <<>> THEN LongSize(exPos) ELSE exOrders[1].before

BothClose == \A i \in Procs : OnClosePath(i)

\* No position entry has a negative size and no short is open.
NoShort ==
    \A k \in 1..Len(exPos) :
        /\ exPos[k].size[1] >= 0
        /\ ~(exPos[k].side = "Sell" /\ exPos[k].size[1] > 0)

\* C8 as stated: while two Close invocations run against an exchange that
\* rejects a reduce-only order once the position is flat, no short is
\* opened, the quantity sold stays within the long held before the two
\* signals, and an invocation that has terminated returned ok, no_position
\* or error.
C8_RaceTolerated ==
    BothClose
    => /\ NoShort
       /\ RatLE(SoldIn(exOrders), LongBeforeOrders)
       /\ \A i \in Procs :
             Finished(i) => resp[i].status \in {"ok", "no_position", "error"}

\* The parts of C8 that do not depend on how a failed exchange call ends:
\* no short, sales within the long, and a rejected closing order returned
\* as the error status.
C8_RaceNoOversell ==
    BothClose
    => /\ NoShort
       /\ RatLE(SoldIn(exOrders), LongBeforeOrders)
       /\ \A i \in Procs :
             RejectedIdx(i) # {} => resp[i].status = "error"

\* Both invocations observed the long, the first sold all of it and the
\* second's order was rejected.
C8_RaceReached ==
    /\ BothClose
    /\ \A i \in Procs : Made(i, "order/create")
    /\ \E i \in Procs : RejectedIdx(i) # {} /\ Finished(i)
    /\ LongSize(exPos) = Zero
    /\ SoldIn(exOrders) = LongBeforeOrders

\* e.get('execFee', 0) of the k-th and later fills, summed
RECURSIVE FeesFrom(_, _)
FeesFrom(execs, k) ==
    IF k > Len(execs) THEN Zero
    ELSE RatAdd(IF execs[k].execFee = NoField THEN Zero ELSE ParseFloat(execs[k].execFee),
                FeesFrom(execs, k + 1))

\* C9: a Close invocation that ended ok reports gross PnL
\* (exitPrice - entryPrice) * qty, net PnL = gross minus the execFee of all
\* fills the fill query returned (a missing fee counts as zero), and
\* pctChange = netPnl / balanceBefore * 100, or 0 when balanceBefore is not
\* positive; entry 50000, exit 51000, qty 0.06, fee 0.5, balanceBefore 1000
\* give 60, 59.5 and 5.95.
C9_ClosePnl ==
    \A i \in Procs :
        (OnClosePath(i) /\ Finished(i) /\ resp[i].status = "ok")
        => LET l     == loc[i]
               entry == ParseFloat(l.original.avgPrice)
               qty   == ParseFloat(l.original.size)
               gross == RatMul(RatSub(l.exit_price, entry), qty)
               fees  == FeesFrom(l.execs, 1)
               net   == RatSub(gross, fees)
           IN  /\ l.pnl = gross
               /\ l.net_pnl = net
               /\ l.pct_change =
                     IF Positive(l.balance_before)
                     THEN RatMul(RatDiv(net, l.balance_before), IntRat(100))
                     ELSE Zero
               /\ (/\ entry = <<50000, 1>>
                   /\ l.exit_price = <<51000, 1>>
                   /\ qty = <<3, 50>>
                   /\ fees = <<1, 2>>
                   /\ l.balance_before = <<1000, 1>>)
                  => /\ l.pnl = <<60, 1>>
                     /\ l.net_pnl = <<119, 2>>
                     /\ l.pct_change = <<119, 20>>

\* C9 witness: the scenario of the claim has ended ok.
C9_Witness ==
    \E i \in Procs :
        /\ OnClosePath(i) /\ Finished(i) /\ resp[i].status = "ok"
        /\ ParseFloat(loc[i].original.avgPrice) = <<50000, 1>>
        /\ ParseFloat(loc[i].original.size) = <<3, 50>>
        /\ loc[i].exit_price = <<51000, 1>>
        /\ FeesFrom(loc[i].execs, 1) = <<1, 2>>
        /\ loc[i].balance_before = <<1000, 1>>

\* p is the price reconciliation yields from execs: the fallback for an
\* empty list, else the mean of execPrice weighted by execQty (stated as
\* p * sum(execQty) = sum(execPrice * execQty)); the fill's own price for
\* a single fill.
Reconciled(execs, p, fallback) ==
    /\ execs = <<>> => p = fallback
    /\ execs # <<>> =>
          /\ SumQty(execs) # Zero
          /\ RatMul(p, SumQty(execs)) = SumPriceQty(execs)
    /\ Len(execs) = 1 => p = ParseFloat(execs[1].execPrice)

\* C10: the execution price used after an accepted order is the
\* quantity-weighted mean of the fills returned, the price of a single
\* fill, and for an empty fill list the fallback: the last price fetched
\* earlier on the Open path, the position's avgPrice on the Close path.
C10_ExecutionPrice ==
    \A i \in Procs :
        /\ (OnOpenPath(i) /\ loc[i].avg_price # None)
           => Reconciled(loc[i].execs, loc[i].avg_price, loc[i].price)
        /\ (OnClosePath(i) /\ loc[i].exit_price # None)
           => Reconciled(loc[i].execs, loc[i].exit_price,
                         ParseFloat(loc[i].original.avgPrice))

\* C10 witness: two fills at different prices and different quantities
\* have been reconciled.
C10_Witness ==
    \E i \in Procs :
        /\ Started(i)
        /\ (loc[i].avg_price # None \/ loc[i].exit_price # None)
        /\ Len(loc[i].execs) = 2
        /\ loc[i].execs[1].execPrice # loc[i].execs[2].execPrice
        /\ loc[i].execs[1].execQty # loc[i].execs[2].execQty

(***************************************************************************)
(* C11..C20                                                                *)
(***************************************************************************)
\* C11 as stated: with the API key or the API secret absent or empty,
\* signing fails: no invocation ever sends a signed request.
C11_NoSignedRequestWithoutCredentials ==
    (env.apiKey \in {Unset, ""} \/ env.apiSecret \in {Unset, ""})
    => \A i \in Procs : calls[i] = <<>>

\* The part of C11 the code keeps: with the key or the secret not set at
\* all, sign_request raises and no request is sent.
C11_NoRequestWhenUnset ==
    (env.apiKey = Unset \/ env.apiSecret = Unset)
    => \A i \in Procs :
          /\ calls[i] = <<>>
          /\ Finished(i) /\ SideCmd(i) \in {"buy", "exit"} => resp[i].status = "fault"

\* The order-create calls of invocation i whose body has the given side.
OrderIdx(i, side) ==
    { k \in CallIdx(i, "order/create") : calls[i][k].arg.order.side = side }

\* C12: every opening order of an invocation comes after a set-leverage
\* call of the same invocation that has returned (it answered retCode 0 or
\* a non-success retCode; a request that failed in transport ends the
\* invocation), and an Open invocation that is past its first step has
\* made that call first.
C12_LeverageBeforeOrder ==
    \A i \in Procs :
        /\ \A k \in OrderIdx(i, "Buy") :
              \E j \in CallIdx(i, "set-leverage") :
                  /\ j < k
                  /\ calls[i][j].arg.ret \in {"ok", "retErr"}
                  /\ calls[i][j].arg.buy_leverage = LONG_LEVERAGE
        /\ OnOpenPath(i) /\ calls[i] # <<>> => calls[i][1].op = "set-leverage"

\* An opening order submitted after set-leverage answered a non-success
\* retCode: the result code does not gate the submission.
C12_Witness ==
    \E i \in Procs :
        /\ OrderIdx(i, "Buy") # {}
        /\ \E j \in CallIdx(i, "set-leverage") : calls[i][j].arg.ret = "retErr"

\* The side of the signal of invocation i is not a command: it is missing
\* or empty, or lower-cases to something other than buy and exit.
NotACommand(i) ==
    \/ sig[i].symbol = ""
    \/ sig[i].side = ""
    \/ sig[i].side \notin {"buy", "BUY", "exit", "EXIT"}

\* C13: an invocation whose signal has no symbol, no side, or a side other
\* than buy and exit has returned ignored, with no exchange call and no
\* notification.
C13_IgnoredTouchesNothing ==
    \A i \in Procs :
        Started(i) /\ NotACommand(i) =>
            /\ Finished(i)
            /\ resp[i].status = "ignored"
            /\ calls[i] = <<>>
            /\ notified[i] = <<>>

C13_Witness ==
    \E i \in Procs :
        /\ Started(i)
        /\ sig[i].symbol = Symbol
        /\ sig[i].side = "sell"
        /\ resp[i].status = "ignored"

\* C14: the step in which an invocation notifies returns ok and leaves the
\* invocation's exchange calls and the exchange as they were, whatever the
\* notifier does (message sent, transport error, skipped for want of
\* credentials): from the same signal and exchange responses the three
\* outcomes end in the same status and the same calls.
C14_StatusIndependentOfNotifier ==
    [][\A i \in Procs :
          notified'[i] # notified[i] =>
              /\ resp'[i].status = "ok"
              /\ calls' = calls
              /\ exVars' = exVars]_vars

\* An Open invocation that returned ok although its notification failed in
\* transport.
C14_Witness ==
    \E i \in Procs :
        /\ notified[i] = <<"failed">>
        /\ Finished(i)
        /\ resp[i].status = "ok"
        /\ OrderIdx(i, "Buy") # {}

\* The first entry of the list with side Buy and a size above zero, read
\* off the position list the invocation observed.
FirstLong(ps) ==
    LET ks == { k \in 1..Len(ps) : ps[k].side = "Buy" /\ Positive(ParseFloat(ps[k].size)) }
    IN  ps[CHOOSE k \in ks : \A m \in ks : k <= m]

\* C15: every order a Close invocation submits is a reduce-only Market
\* Sell for the size of the first Buy entry with size > 0 of the position
\* list that invocation observed; every order an Open invocation submits is
\* a Buy and is not reduce-only.
C15_OrderShapes ==
    \A i \in Procs :
        \A k \in CallIdx(i, "order/create") :
            LET o == calls[i][k].arg.order IN
            /\ OnClosePath(i) =>
                  /\ o.side = "Sell"
                  /\ o.orderType = "Market"
                  /\ o.reduce_only = TRUE
                  /\ loc[i].positions # None
                  /\ o.qty = ParseFloat(FirstLong(loc[i].positions[1]).size)
            /\ OnOpenPath(i) =>
                  /\ o.side = "Buy"
                  /\ o.reduce_only = FALSE

\* A closing order submitted for a long that is not the first entry of the
\* observed list.
C15_Witness ==
    \E i \in Procs :
        /\ OnClosePath(i)
        /\ OrderIdx(i, "Sell") # {}
        /\ Len(loc[i].positions[1]) > 1
        /\ FirstLong(loc[i].positions[1]) # loc[i].positions[1][1]

\* One invocation has the account to itself.
Alone == Cardinality({ j \in Procs : pc[j] # "off" }) = 1

\* C16: in a Close invocation the balance is fetched once, after the
\* position list and before the closing order, and never after it; the
\* percentage reported divides by that balance, which is the balance the
\* exchange held when the fetch was answered and so (in an invocation running
\* alone) the balance before the closing order executed.
C16_BalanceBeforeCloseOrder ==
    \A i \in Procs :
        OnClosePath(i) =>
            /\ Cardinality(CallIdx(i, "wallet-balance")) <= 1
            /\ \A b \in CallIdx(i, "wallet-balance") :
                  /\ \E p \in CallIdx(i, "position/list") : p < b
                  /\ \A k \in CallIdx(i, "order/create") : b < k
            /\ \A k \in CallIdx(i, "order/create") :
                  \E b \in CallIdx(i, "wallet-balance") : b < k
            /\ loc[i].pct_change # None =>
                  /\ loc[i].pct_change = PctChange(loc[i].net_pnl, loc[i].balance_before)
                  /\ \A b \in CallIdx(i, "wallet-balance") :
                        calls[i][b].arg.ret = "ok" /\ Alone
                        => loc[i].balance_before = ParseFloat(exOrders[loc[i].order_id].balance)

\* A Close invocation whose order executed and moved the balance, and that
\* reported a percentage of the balance fetched before it.
C16_Witness ==
    \E i \in Procs :
        /\ OnClosePath(i)
        /\ loc[i].pct_change # None
        /\ Positive(loc[i].balance_before)
        /\ ParseFloat(exBalance) # loc[i].balance_before

\* The set-leverage calls of invocation i the exchange answered with a
\* non-success retCode.
LeverageRefused(i) ==
    { k \in CallIdx(i, "set-leverage") : calls[i][k].arg.ret = "retErr" }

\* C17 as stated: an Open invocation whose set-leverage was answered with a
\* non-success retCode has returned error and has made no order-create call.
C17_LeverageRefusalAborts ==
    \A i \in Procs :
        LeverageRefused(i) # {} =>
            /\ Finished(i)
            /\ resp[i].status = "error"
            /\ ~Made(i, "order/create")

\* C17 amended: a non-success retCode of set-leverage ends nothing: the
\* invocation goes on to the balance fetch, and when it returns error it is
\* for an invalid price or step or for an order-create the exchange rejected.
C17_LeverageRefusalIgnored ==
    \A i \in Procs :
        LeverageRefused(i) # {} =>
            /\ pc[i] = "open_balance" \/ Made(i, "wallet-balance")
            /\ Finished(i) /\ resp[i].status = "error" =>
                  \/ resp[i].reason = "invalid price or step"
                  \/ RejectedIdx(i) # {}

\* An opening order accepted in an invocation whose set-leverage was refused,
\* and the invocation returned ok.
C17_Witness ==
    \E i \in Procs :
        /\ LeverageRefused(i) # {}
        /\ Finished(i)
        /\ resp[i].status = "ok"
        /\ \E k \in OrderIdx(i, "Buy") : calls[i][k].arg.ret = "accepted"

\* The order-create calls of invocation i the exchange answered with retCode 0.
AcceptedIdx(i) ==
    { k \in CallIdx(i, "order/create") : calls[i][k].arg.ret = "accepted" }

\* The sends invocation i attempted: send_telegram posts a message (lines
\* 107-110) only when the token and the chat id are set.
Attempted(i) == SelectSeq(notified[i], LAMBDA out : out \in {"sent", "failed"})

\* C18 as stated: at most one notification per invocation, only after an
\* accepted order-create, none in an invocation that returned error,
\* no_position or ignored, and every invocation that returned ok has
\* attempted exactly one send.
C18_OkAttemptedOneSend ==
    \A i \in Procs :
        /\ Len(notified[i]) <= 1
        /\ notified[i] # <<>> => AcceptedIdx(i) # {}
        /\ Finished(i) /\ resp[i].status \in {"error", "no_position", "ignored"}
              => notified[i] = <<>>
        /\ Finished(i) /\ resp[i].status = "ok" => Len(Attempted(i)) = 1

\* C18 amended: an invocation calls the notifier at most once, and only
\* after one of its order-create calls was accepted; an invocation that
\* returned error, no_position or ignored has not called it, and one that
\* returned ok has called it exactly once, which attempts one send unless
\* the notification credentials are unset.
C18_OneNotificationAfterAcceptance ==
    \A i \in Procs :
        /\ Len(notified[i]) <= 1
        /\ notified[i] # <<>> => AcceptedIdx(i) # {}
        /\ Finished(i) /\ resp[i].status \in {"error", "no_position", "ignored"}
              => notified[i] = <<>>
        /\ Finished(i) /\ resp[i].status = "ok" =>
              /\ Len(notified[i]) = 1
              /\ Len(Attempted(i)) = (IF notified[i][1] = "skipped" THEN 0 ELSE 1)

\* A Close invocation that returned ok after an accepted order and called
\* the notifier once, which sent nothing for want of credentials.
C18_Witness ==
    \E i \in Procs :
        /\ OnClosePath(i)
        /\ resp[i].status = "ok"
        /\ notified[i] = <<"skipped">>
        /\ AcceptedIdx(i) # {}

\* The sum over the fills of (execPrice - entry) * execQty, as the sum of
\* execPrice * execQty less entry times the sum of execQty.
SumGross(execs, entry) ==
    RatSub(SumPriceQty(execs), RatMul(entry, SumQty(execs)))

\* The size of the long invocation i selected from the list it observed.
ObservedSize(i) == ParseFloat(loc[i].original.size)
ObservedEntry(i) == ParseFloat(loc[i].original.avgPrice)

\* C19: the gross PnL a Close invocation reports is (exit price - entry
\* price) times the position size it observed before the order, whatever
\* was executed: when the fills sum to the observed size it equals the sum
\* over the fills of (execPrice - entry) * execQty, and when they sum to
\* less (a partial fill, or no fill reported) it is still on the full
\* observed size: the PnL of the fills scaled by observed size over executed
\* quantity, and zero when no fill is reported, the exit price then being
\* the entry price.
C19_PnlOnObservedSize ==
    \A i \in Procs :
        OnClosePath(i) /\ loc[i].pnl # None =>
            /\ loc[i].pnl = RatMul(RatSub(loc[i].exit_price, ObservedEntry(i)),
                                   ObservedSize(i))
            /\ SumQty(loc[i].execs) = ObservedSize(i) =>
                  loc[i].pnl = SumGross(loc[i].execs, ObservedEntry(i))
            /\ loc[i].execs = <<>> => loc[i].pnl = Zero
            /\ Positive(SumQty(loc[i].execs)) =>
                  RatMul(loc[i].pnl, SumQty(loc[i].execs)) =
                     RatMul(SumGross(loc[i].execs, ObservedEntry(i)), ObservedSize(i))

\* A closing order filled for less than the observed size, at a price other
\* than the entry price: the reported PnL is not the PnL of what was executed.
C19_Witness ==
    \E i \in Procs :
        /\ OnClosePath(i)
        /\ loc[i].pnl # None
        /\ loc[i].execs # <<>>
        /\ RatLT(SumQty(loc[i].execs), ObservedSize(i))
        /\ loc[i].pnl # SumGross(loc[i].execs, ObservedEntry(i))

\* Both invocations are Open invocations.
BothOpen == \A i \in Procs : OnOpenPath(i)

\* qty * price of the opening order invocation i submitted, zero before it
\* submits one.
OpenNotional(i) ==
    IF OrderIdx(i, "Buy") = {} THEN Zero
    ELSE RatMul(calls[i][CHOOSE k \in OrderIdx(i, "Buy") : TRUE].arg.order.qty,
                loc[i].price)

\* The available balance of the account before any order executed.
BalanceBeforeOrders ==
    IF exOrders = <<>> THEN ParseFloat(exBalance)
    ELSE ParseFloat(exOrders[1].balance)

\* What the sizing of invocation i allows its order: leverage times the
\* balance that invocation read, or one minimum order if that is more.
Allowance(i) ==
    IF OrderIdx(i, "Buy") = {} THEN Zero
    ELSE RatMax(RatMul(IntRat(LONG_LEVERAGE), loc[i].balance),
                RatMul(loc[i].min_q, loc[i].price))

\* C20 as stated: the opening orders of two Open invocations together never
\* exceed leverage times the balance the account had before either order.
C20_CombinedNotionalWithinBalance ==
    BothOpen =>
        RatLE(RatAdd(OpenNotional(1), OpenNotional(2)),
              RatMul(IntRat(LONG_LEVERAGE), BalanceBeforeOrders))

\* C20 amended: each of two Open invocations sizes its order against the
\* balance it read itself, so together the orders never exceed the sum of
\* what each sizing allows (leverage times the balance that invocation read,
\* or one minimum order if that is more).
C20_CombinedNotionalWithinBalancesRead ==
    BothOpen =>
        RatLE(RatAdd(OpenNotional(1), OpenNotional(2)),
              RatAdd(Allowance(1), Allowance(2)))

\* Two opening orders, each sized against the same balance, together above
\* leverage times that balance.
C20_Witness ==
    /\ BothOpen
    /\ \A i \in Procs : OrderIdx(i, "Buy") # {}
    /\ loc[1].balance = loc[2].balance
    /\ RatLT(RatMul(IntRat(LONG_LEVERAGE), BalanceBeforeOrders),
             RatAdd(OpenNotional(1), OpenNotional(2)))

====
